---- MODULE Spec2Model ----
(***************************************************************************)
(* Model of the ai-ulu/QA automation agents:                               *)
(*   scripts/media_agent.py   get_context, generate_godfather_content,     *)
(*                            save_and_issue                               *)
(*   scripts/repair_agent.py  update_tasks_md, autonomous_heal             *)
(* Text is a sequence of one-character strings, so that Python's split,    *)
(* strip, replace and the base64 round trip are computed, not assumed.     *)
(***************************************************************************)
EXTENDS Integers, Sequences, FiniteSets, TLC

(***************************************************************************)
(* Bounds of the model.                                                    *)
(***************************************************************************)
MaxLines == 3        \* lines of a checklist document in the text runs
MaxOther == 1        \* edits by writers other than the agents
MaxClock == 2        \* minutes the wall clock may advance

(***************************************************************************)
(* Text primitives (Python str semantics).                                 *)
(***************************************************************************)
NL == "\n"

CheckedMarker == <<"-", " ", "[", "x", "]">>

UncheckedMarker == <<"-", " ", "[", " ", "]">>

StripChars == {"-", " ", "[", "x", "]"}

DefaultTask ==
  <<"S","y","s","t","e","m"," ","O","p","t","i","m","i","z","a","t","i","o","n">>

\* sub occurs in s starting at index i
StartsAt(s, sub, i) ==
  /\ i >= 1
  /\ i + Len(sub) - 1 <= Len(s)
  /\ \A k \in 1..Len(sub) : s[i + k - 1] = sub[k]

\* Python: sub in s
Contains(sub, s) == \E i \in 1..(Len(s) + 1) : StartsAt(s, sub, i)

\* Python: s.find(sub) + 1   (0 when absent)
Find(sub, s) ==
  IF Contains(sub, s)
  THEN CHOOSE i \in 1..(Len(s) + 1) :
         /\ StartsAt(s, sub, i)
         /\ \A j \in 1..(i - 1) : ~StartsAt(s, sub, j)
  ELSE 0

Slice(s, a, b) == IF a > b THEN <<>> ELSE SubSeq(s, a, b)

\* Python: s.split('\n')
RECURSIVE Split(_)
Split(s) ==
  LET i == Find(<<NL>>, s)
  IN  IF i = 0 THEN <<s>>
      ELSE <<Slice(s, 1, i - 1)>> \o Split(Slice(s, i + 1, Len(s)))

\* Python: '\n'.join(lines)
RECURSIVE Join(_)
Join(lines) ==
  IF lines = <<>> THEN <<>>
  ELSE IF Len(lines) = 1 THEN lines[1]
  ELSE lines[1] \o <<NL>> \o Join(Tail(lines))

\* Python: s.strip(chars): drops every leading and trailing character that
\* belongs to the set chars
Strip(s, chars) ==
  LET keep == {i \in 1..Len(s) : s[i] \notin chars}
  IN  IF keep = {} THEN <<>>
      ELSE LET lo == CHOOSE i \in keep : \A j \in keep : i <= j
               hi == CHOOSE i \in keep : \A j \in keep : j <= i
           IN  SubSeq(s, lo, hi)

\* Python: s.replace(old, new, 1)
ReplaceFirst(s, old, new) ==
  LET i == Find(old, s)
  IN  IF i = 0 THEN s
      ELSE Slice(s, 1, i - 1) \o new \o Slice(s, i + Len(old), Len(s))

\* Python: s.replace(old, new)
RECURSIVE ReplaceAll(_, _, _)
ReplaceAll(s, old, new) ==
  LET i == Find(old, s)
  IN  IF i = 0 THEN s
      ELSE Slice(s, 1, i - 1) \o new
             \o ReplaceAll(Slice(s, i + Len(old), Len(s)), old, new)

(***************************************************************************)
(* UTF-8 and base64 (the characters used are all ASCII).                   *)
(***************************************************************************)
Alphabet ==
  {"-", " ", "[", "]", "x", NL, "a", "b", "c", "f", "i", "n",
   "S", "y", "s", "t", "e", "m", "O", "p", "z", "o"}

OrdTable ==
  [c \in Alphabet |->
  CASE c = NL  -> 10  [] c = " " -> 32  [] c = "-" -> 45  [] c = "O" -> 79
    [] c = "S" -> 83  [] c = "[" -> 91  [] c = "]" -> 93  [] c = "a" -> 97
    [] c = "b" -> 98  [] c = "c" -> 99  [] c = "e" -> 101 [] c = "f" -> 102
    [] c = "i" -> 105 [] c = "m" -> 109 [] c = "n" -> 110 [] c = "o" -> 111
    [] c = "p" -> 112 [] c = "s" -> 115 [] c = "t" -> 116 [] c = "x" -> 120
    [] c = "y" -> 121 [] c = "z" -> 122]

Ord(c) == OrdTable[c]

ChrTable ==
  [b \in {OrdTable[c] : c \in Alphabet} |->
     CHOOSE c \in Alphabet : OrdTable[c] = b]

Chr(b) == ChrTable[b]

\* str.encode()
Utf8Encode(s) == [i \in 1..Len(s) |-> Ord(s[i])]

\* bytes.decode()
Utf8Decode(bs) == [i \in 1..Len(bs) |-> Chr(bs[i])]

\* base64 symbols: 0..63 the alphabet, Pad the '=' sign, LineBreak a newline
Pad == 64

LineBreak == 65

B64LineLen == 60

RECURSIVE b64encode(_)
b64encode(bs) ==
  IF Len(bs) = 0 THEN <<>>
  ELSE IF Len(bs) = 1 THEN
    <<bs[1] \div 4, (bs[1] % 4) * 16, Pad, Pad>>
  ELSE IF Len(bs) = 2 THEN
    LET n == bs[1] * 256 + bs[2]
    IN  <<n \div 1024, (n \div 16) % 64, (n % 16) * 4, Pad>>
  ELSE
    LET n == bs[1] * 65536 + bs[2] * 256 + bs[3]
    IN  <<n \div 262144, (n \div 4096) % 64, (n \div 64) % 64, n % 64>>
          \o b64encode(SubSeq(bs, 4, Len(bs)))

IsB64Symbol(x) == x <= Pad

RECURSIVE DecodeQuads(_)
DecodeQuads(q) ==
  IF Len(q) < 4 THEN <<>>
  ELSE IF q[3] = Pad THEN
    <<q[1] * 4 + q[2] \div 16>>
  ELSE IF q[4] = Pad THEN
    <<q[1] * 4 + q[2] \div 16, (q[2] % 16) * 16 + q[3] \div 4>>
  ELSE
    <<q[1] * 4 + q[2] \div 16, (q[2] % 16) * 16 + q[3] \div 4,
      (q[3] % 4) * 64 + q[4]>> \o DecodeQuads(SubSeq(q, 5, Len(q)))

\* base64.b64decode: characters outside the alphabet are discarded first
b64decode(e) == DecodeQuads(SelectSeq(e, IsB64Symbol))

\* The contents API returns the file base64-encoded in lines of 60 symbols,
\* each ended by a newline.
RECURSIVE WrapLines(_)
WrapLines(e) ==
  IF Len(e) = 0 THEN <<>>
  ELSE IF Len(e) <= B64LineLen THEN e \o <<LineBreak>>
  ELSE SubSeq(e, 1, B64LineLen) \o <<LineBreak>>
         \o WrapLines(SubSeq(e, B64LineLen + 1, Len(e)))

ApiEncode(text) == WrapLines(b64encode(Utf8Encode(text)))

(***************************************************************************)
(* The hosting platform: branches of one repository, each holding the test *)
(* artifact and the checklist document, the published documents of the     *)
(* default branch, pull requests and issues.                               *)
(***************************************************************************)
NoFile == <<"<absent>">>

NoSha == <<>>

\* a git blob id is a hash of the content: equal exactly for equal content
BlobSha(text) == <<"blob", text>>

ArtifactText == <<"c">>

ArtifactSha == BlobSha(ArtifactText)

DefaultBranch == <<"main", 0>>

FixPrefix == "fix/chaos-recovery-"

Suffixes == {1000, 1001}

FixBranches == {<<FixPrefix, n>> : n \in Suffixes}

BranchNames == {DefaultBranch} \cup FixBranches

NoBranch == <<"", 0>>

NoCommit == [artifact |-> FALSE, tasks |-> NoFile]

Agents == {"a1", "a2"}

Medias == {"m1", "m2"}

\* transport outcome of one call: delivered and answered, never delivered,
\* or delivered with the answer lost
Net == {"ok", "down", "lost"}

\* for a read, a lost answer is the same as a call that was never delivered
ReadNet == {"ok", "down"}

NullBody == [none |-> TRUE]

VARIABLES
  branches,   \* branch name -> [exists, artifact, tasks]
  outputs,    \* minute stamp -> published document on the default branch
  pulls,      \* pull requests: set of [head, base, state]
  issues,     \* review issues opened: sequence of [by, path]
  others,     \* number of edits made by other writers
  clock,      \* wall clock, in ticks of half a minute
  ag,         \* Repair Agent invocation -> local variables
  reqs,       \* Repair Agent invocation -> write requests issued, in order
  md          \* Media Agent invocation -> local variables

vars == <<branches, outputs, pulls, issues, others, clock, ag, reqs, md>>

\* github_request: a delivered call answered with a 2xx status returns the
\* parsed body and the status; everything else raises inside urlopen and is
\* turned into (None, 0)
github_request(net, reply) ==
  IF net = "ok" /\ reply.status \in 200..299
  THEN [null |-> FALSE, status |-> reply.status, body |-> reply.body]
  ELSE [null |-> TRUE, status |-> 0, body |-> NullBody]

\* GET contents/tests/chaos_test.js (no ref: the default branch)
PlatGetArtifact ==
  IF branches[DefaultBranch].artifact
  THEN [status |-> 200, body |-> [sha |-> ArtifactSha]]
  ELSE [status |-> 404, body |-> NullBody]

\* GET contents/tasks.md (no ref: the default branch)
PlatGetTasks ==
  LET t == branches[DefaultBranch].tasks
  IN  IF t = NoFile THEN [status |-> 404, body |-> NullBody]
      ELSE [status |-> 200,
            body |-> [content |-> ApiEncode(t), sha |-> BlobSha(t)]]

\* GET repos/{org}/{repo}
PlatGetRepo ==
  [status |-> 200, body |-> [default_branch |-> DefaultBranch]]

\* GET git/ref/heads/{branch}: the head commit, identified by its tree
PlatGetRef(b) ==
  IF b \in BranchNames /\ branches[b].exists
  THEN [status |-> 200,
        body |-> [artifact |-> branches[b].artifact,
                  tasks |-> branches[b].tasks]]
  ELSE [status |-> 404, body |-> NullBody]

\* POST git/refs
PlatCreateRef(b, commit) ==
  IF branches[b].exists
  THEN [status |-> 422, br |-> branches]
  ELSE [status |-> 201,
        br |-> [branches EXCEPT ![b] =
                  [exists |-> TRUE, artifact |-> commit.artifact,
                   tasks |-> commit.tasks]]]

\* DELETE contents/tests/chaos_test.js
PlatDeleteArtifact(b, sha) ==
  IF ~branches[b].exists \/ ~branches[b].artifact
  THEN [status |-> 404, br |-> branches]
  ELSE IF sha # ArtifactSha
  THEN [status |-> 409, br |-> branches]
  ELSE [status |-> 200, br |-> [branches EXCEPT ![b].artifact = FALSE]]

\* PUT contents/tasks.md: an existing file is replaced only when the request
\* carries the blob id of the file as it is on the target branch
PlatPutTasks(b, b64, sha) ==
  LET new == Utf8Decode(b64decode(b64))
  IN  IF ~branches[b].exists
      THEN [status |-> 404, br |-> branches]
      ELSE IF branches[b].tasks = NoFile
      THEN [status |-> 201, br |-> [branches EXCEPT ![b].tasks = new]]
      ELSE IF sha # BlobSha(branches[b].tasks)
      THEN [status |-> 409, br |-> branches]
      ELSE [status |-> 200, br |-> [branches EXCEPT ![b].tasks = new]]

HealTitle == "Autonomous Self-Healing: Chaos Recovery"

\* POST pulls
PlatCreatePull(head, base) ==
  IF /\ head \in BranchNames
     /\ branches[head].exists
     /\ head # base
     /\ ~\E q \in pulls : q.head = head /\ q.base = base /\ q.state = "open"
  THEN [status |-> 201,
        pl |-> pulls \cup {[head |-> head, base |-> base, state |-> "open",
                            title |-> HealTitle]}]
  ELSE [status |-> 422, pl |-> pulls]

(***************************************************************************)
(* Repair Agent (scripts/repair_agent.py).  One action per API call, with  *)
(* the code that runs between that call and the next one.                  *)
(***************************************************************************)
AgentStart ==
  [pc |-> "start", status |-> -1, sha |-> NoSha, branch_name |-> NoBranch,
   default_branch |-> NoBranch, main_sha |-> NoCommit, t_status |-> -1,
   t_content |-> <<>>, t_sha |-> NoSha, out |-> <<>>]

AgentIdle == [AgentStart EXCEPT !.pc = "idle"]

Delivered(net) == net # "down"

Accepted(net, status) == Delivered(net) /\ status \in 200..299

\* a write request as issued, with the platform's verdict on it (which the
\* agent never looks at): conflict tells that the platform refused it for
\* a blob id that is not the one of the file
WriteReq(op, b, content, sha, net, status) ==
  [op |-> op, branch |-> b, content |-> content, sha |-> sha,
   accepted |-> Accepted(net, status),
   conflict |-> Delivered(net) /\ status = 409]

\* if status == 200   (autonomous_heal)
HealGateOpen(status) == TRUE

HealGate(status) == status = 200

\* new_content = content.replace("- [ ]", "- [x]", 1)
AdvanceContentAll(content) ==
  ReplaceAll(content, UncheckedMarker, CheckedMarker)

AdvanceContent(content) ==
  ReplaceFirst(content, UncheckedMarker, CheckedMarker)

\* "sha": res_data["sha"]   (update_tasks_md)
TasksPutShaFresh(a) == BlobSha(branches[DefaultBranch].tasks)

TasksPutSha(a) == a.t_sha

\* "branch": branch_name   (update_tasks_md)
TasksPutBranchDefault(a) == DefaultBranch

TasksPutBranch(a) == a.branch_name

\* the statement after the create-branch call: its result is not looked at
HealAbortOnFailure(r) == IF r.status = 201 THEN "delete" ELSE "done"

HealAfterCreate(r) == "delete"

\* lines 41-47: read the test artifact, gate, pick the branch name
HealStart(p) ==
  /\ ag[p].pc = "start"
  /\ \E net \in ReadNet, n \in Suffixes :
       LET a == ag[p]
           r == github_request(net, PlatGetArtifact)
           o == Append(a.out, "initiated")
       IN  ag' = [ag EXCEPT ![p] =
                 IF HealGate(r.status)
                 THEN IF r.null
                      THEN [a EXCEPT !.pc = "crashed", !.status = r.status,
                                     !.out = o]
                      ELSE [a EXCEPT !.pc = "repo", !.status = r.status,
                                     !.sha = r.body.sha,
                                     !.branch_name = <<FixPrefix, n>>,
                                     !.out = o]
                 ELSE [a EXCEPT !.pc = "done", !.status = r.status,
                                !.out = Append(o, "no_chaos")]]
  /\ UNCHANGED <<branches, outputs, pulls, issues, others, clock, reqs, md>>

\* lines 48-49: repo_info.get(...) on None raises AttributeError
HealRepoInfo(p) ==
  /\ ag[p].pc = "repo"
  /\ \E net \in ReadNet :
       LET a == ag[p]
           r == github_request(net, PlatGetRepo)
       IN  ag' = [ag EXCEPT ![p] =
                 IF r.null THEN [a EXCEPT !.pc = "crashed"]
                 ELSE [a EXCEPT !.pc = "ref",
                                !.default_branch = r.body.default_branch]]
  /\ UNCHANGED <<branches, outputs, pulls, issues, others, clock, reqs, md>>

\* lines 50-51: ref_info["object"] on None raises TypeError
HealRef(p) ==
  /\ ag[p].pc = "ref"
  /\ \E net \in ReadNet :
       LET a == ag[p]
           r == github_request(net, PlatGetRef(a.default_branch))
       IN  ag' = [ag EXCEPT ![p] =
                 IF r.null THEN [a EXCEPT !.pc = "crashed"]
                 ELSE [a EXCEPT !.pc = "mkbranch", !.main_sha = r.body]]
  /\ UNCHANGED <<branches, outputs, pulls, issues, others, clock, reqs, md>>

\* line 52: create the branch
HealCreateBranch(p) ==
  /\ ag[p].pc = "mkbranch"
  /\ \E net \in Net :
       LET a == ag[p]
           e == PlatCreateRef(a.branch_name, a.main_sha)
           r == github_request(net, [status |-> e.status, body |-> NullBody])
       IN  /\ branches' = IF Delivered(net) THEN e.br ELSE branches
           /\ reqs' = [reqs EXCEPT ![p] = Append(@,
                         WriteReq("create_branch", a.branch_name, <<>>, NoSha,
                                  net, e.status))]
           /\ ag' = [ag EXCEPT ![p].pc = HealAfterCreate(r)]
  /\ UNCHANGED <<outputs, pulls, issues, others, clock, md>>

\* line 53: delete the artifact on the branch
HealDelete(p) ==
  /\ ag[p].pc = "delete"
  /\ \E net \in Net :
       LET a == ag[p]
           e == PlatDeleteArtifact(a.branch_name, a.sha)
       IN  /\ branches' = IF Delivered(net) THEN e.br ELSE branches
           /\ reqs' = [reqs EXCEPT ![p] = Append(@,
                         WriteReq("delete", a.branch_name, <<>>, a.sha,
                                  net, e.status))]
           /\ ag' = [ag EXCEPT ![p].pc = "tasks_get"]
  /\ UNCHANGED <<outputs, pulls, issues, others, clock, md>>

\* update_tasks_md, lines 24-29: read the checklist, decode, look for an
\* unchecked marker
UpdReadTasks(p) ==
  /\ ag[p].pc = "tasks_get"
  /\ \E net \in ReadNet :
       LET a == ag[p]
           r == github_request(net, PlatGetTasks)
           content == IF r.status = 200
                      THEN Utf8Decode(b64decode(r.body.content)) ELSE <<>>
       IN  ag' = [ag EXCEPT ![p] =
                 [a EXCEPT !.t_status = r.status,
                           !.t_content = content,
                           !.t_sha = IF r.status = 200 THEN r.body.sha
                                     ELSE NoSha,
                           !.pc = IF /\ r.status = 200
                                     /\ Contains(UncheckedMarker, content)
                                  THEN "tasks_put" ELSE "pr"]]
  /\ UNCHANGED <<branches, outputs, pulls, issues, others, clock, reqs, md>>

\* update_tasks_md, lines 30-38: flip the first marker and write it back
UpdPutTasks(p) ==
  /\ ag[p].pc = "tasks_put"
  /\ \E net \in Net :
       LET a == ag[p]
           new_content == AdvanceContent(a.t_content)
           b64_new == b64encode(Utf8Encode(new_content))
           b == TasksPutBranch(a)
           sha == TasksPutSha(a)
           e == PlatPutTasks(b, b64_new, sha)
       IN  /\ branches' = IF Delivered(net) THEN e.br ELSE branches
           /\ reqs' = [reqs EXCEPT ![p] = Append(@,
                         WriteReq("put_tasks", b,
                                  Utf8Decode(b64decode(b64_new)), sha,
                                  net, e.status))]
           /\ ag' = [ag EXCEPT ![p].pc = "pr",
                               ![p].out = Append(@, "updated_tasks")]
  /\ UNCHANGED <<outputs, pulls, issues, others, clock, md>>

\* lines 58-63: open the pull request, print its URL on 201
HealOpenPR(p) ==
  /\ ag[p].pc = "pr"
  /\ \E net \in Net :
       LET a == ag[p]
           e == PlatCreatePull(a.branch_name, a.default_branch)
           r == github_request(net, [status |-> e.status, body |-> NullBody])
       IN  /\ pulls' = IF Delivered(net) THEN e.pl ELSE pulls
           /\ reqs' = [reqs EXCEPT ![p] = Append(@,
                         WriteReq("create_pr", a.branch_name, <<>>, NoSha,
                                  net, e.status))]
           /\ ag' = [ag EXCEPT ![p].pc = "done",
                               ![p].out = IF r.status = 201
                                          THEN Append(@, "pr_opened") ELSE @]
  /\ UNCHANGED <<branches, outputs, issues, others, clock, md>>

AgentStep(p) ==
  \/ HealStart(p)
  \/ HealRepoInfo(p)
  \/ HealRef(p)
  \/ HealCreateBranch(p)
  \/ HealDelete(p)
  \/ UpdReadTasks(p)
  \/ UpdPutTasks(p)
  \/ HealOpenPR(p)

(***************************************************************************)
(* Writers other than the agents: somebody completes a task, checking any  *)
(* unchecked marker of the checklist of some branch through the same API   *)
(* (with the current blob id).                                             *)
(***************************************************************************)
OtherWrite ==
  /\ others < MaxOther
  /\ \E b \in BranchNames :
       /\ branches[b].exists
       /\ branches[b].tasks # NoFile
       /\ \E i \in 1..Len(branches[b].tasks) :
            LET t == branches[b].tasks
            IN  /\ StartsAt(t, UncheckedMarker, i)
                /\ branches' = [branches EXCEPT ![b].tasks =
                                  [t EXCEPT ![i + 3] = "x"]]
  /\ others' = others + 1
  /\ UNCHANGED <<outputs, pulls, issues, clock, ag, reqs, md>>

(***************************************************************************)
(* Media Agent (scripts/media_agent.py).                                   *)
(***************************************************************************)
TicksPerMinute == 2

Minutes == 0..(MaxClock \div TicksPerMinute)

\* strftime('%Y%m%d_%H%M'): the clock cut to the minute
PathStamp(t) == t \div TicksPerMinute

NoOutput == [li |-> 0, tw |-> 0, task |-> <<>>, chaos |-> "", ts |-> -1]

OutputSha(c) == <<"blob", c>>

MediaStart ==
  [pc |-> "start", got |-> FALSE, task |-> <<>>, pr |-> "", chaos |-> "",
   content |-> NoOutput, path |-> -1, repo_null |-> TRUE, put |-> "none",
   default_branch |-> NoBranch]

MediaIdle == [MediaStart EXCEPT !.pc = "idle"]

HasChecked(line) == Contains(CheckedMarker, line)

\* get_context, lines 27-31
GetTask(r) ==
  IF r.null THEN DefaultTask
  ELSE LET content == Utf8Decode(b64decode(r.body.content))
           checked == SelectSeq(Split(content), HasChecked)
       IN  IF checked # <<>>
           THEN Strip(checked[Len(checked)], StripChars)
           ELSE DefaultTask

\* GET pulls?state=closed&per_page=1
PlatListClosed ==
  LET c == {q \in pulls : q.state = "closed"}
  IN  [status |-> 200,
       body |-> [list |-> IF c = {} THEN <<>> ELSE <<CHOOSE q \in c : TRUE>>]]

\* GET pulls?state=all&q=Self-Healing: the list call has no q filter
PlatListAll ==
  [status |-> 200, body |-> [count |-> Cardinality(pulls)]]

\* PUT contents/{path} on the default branch: a new path is created; an
\* existing one is replaced only with the blob id of the file it replaces
PlatPutOutput(path, content, sha) ==
  IF outputs[path] = NoOutput
  THEN [status |-> 201, out |-> [outputs EXCEPT ![path] = content]]
  ELSE IF sha = OutputSha(outputs[path])
  THEN [status |-> 200, out |-> [outputs EXCEPT ![path] = content]]
  ELSE [status |-> 422, out |-> outputs]

\* the PUT of save_and_issue carries no "sha"
PublishShaUpsert(m) == OutputSha(outputs[m.path])

PublishSha(m) == NoSha

\* get_context, lines 26-31
CtxTasks(m) ==
  /\ md[m].pc = "start"
  /\ \E net \in ReadNet :
       LET r == github_request(net, PlatGetTasks)
       IN  md' = [md EXCEPT ![m].pc = "ctx_prs",
                            ![m].got = ~r.null,
                            ![m].task = GetTask(r)]
  /\ UNCHANGED <<branches, outputs, pulls, issues, others, clock, ag, reqs>>

\* get_context, lines 34-35
CtxPrs(m) ==
  /\ md[m].pc = "ctx_prs"
  /\ \E net \in ReadNet :
       LET r == github_request(net, PlatListClosed)
       IN  md' = [md EXCEPT ![m].pc = "ctx_heal",
                            ![m].pr = IF ~r.null /\ r.body.list # <<>>
                                      THEN r.body.list[1].title
                                      ELSE "Code refinement"]
  /\ UNCHANGED <<branches, outputs, pulls, issues, others, clock, ag, reqs>>

\* get_context, lines 39-49
CtxHealing(m) ==
  /\ md[m].pc = "ctx_heal"
  /\ \E net \in ReadNet :
       LET r == github_request(net, PlatListAll)
       IN  md' = [md EXCEPT ![m].pc = "generate",
                            ![m].chaos = IF ~r.null /\ r.body.count > 0
                                         THEN "self-healed" ELSE ""]
  /\ UNCHANGED <<branches, outputs, pulls, issues, others, clock, ag, reqs>>

\* generate_godfather_content: one template per channel at random, the
\* dashboard record with the clock reading
Generate(m) ==
  /\ md[m].pc = "generate"
  /\ \E li \in 1..2, tw \in 1..2 :
       md' = [md EXCEPT ![m].pc = "pub_repo",
                        ![m].content = [li |-> li, tw |-> tw,
                                        task |-> md[m].task,
                                        chaos |-> md[m].chaos,
                                        ts |-> clock]]
  /\ UNCHANGED <<branches, outputs, pulls, issues, others, clock, ag, reqs>>

\* save_and_issue, lines 79-85: compose the path, read the repository
PubRepoInfo(m) ==
  /\ md[m].pc = "pub_repo"
  /\ \E net \in ReadNet :
       LET r == github_request(net, PlatGetRepo)
       IN  md' = [md EXCEPT ![m].pc = "pub_put",
                            ![m].path = PathStamp(clock),
                            ![m].repo_null = r.null,
                            ![m].default_branch =
                               IF r.null THEN NoBranch
                               ELSE r.body.default_branch]
  /\ UNCHANGED <<branches, outputs, pulls, issues, others, clock, ag, reqs>>

\* save_and_issue, line 86: repo_info.get(...) on None raises AttributeError
PubPut(m) ==
  /\ md[m].pc = "pub_put"
  /\ \E net \in Net :
       LET e == PlatPutOutput(md[m].path, md[m].content, PublishSha(md[m]))
       IN  IF md[m].repo_null
           THEN /\ md' = [md EXCEPT ![m].pc = "crashed"]
                /\ outputs' = outputs
           ELSE /\ md' = [md EXCEPT ![m].pc = "pub_issue",
                                     ![m].put = IF ~Delivered(net) THEN "undelivered"
                                                ELSE IF e.status \in 200..299
                                                THEN "stored" ELSE "rejected"]
                /\ outputs' = IF Delivered(net) THEN e.out ELSE outputs
  /\ UNCHANGED <<branches, pulls, issues, others, clock, ag, reqs>>

\* save_and_issue, lines 88-91: open the review issue
PubIssue(m) ==
  /\ md[m].pc = "pub_issue"
  /\ \E net \in Net :
       /\ issues' = IF Delivered(net)
                    THEN Append(issues, [by |-> m, path |-> md[m].path])
                    ELSE issues
       /\ md' = [md EXCEPT ![m].pc = "done"]
  /\ UNCHANGED <<branches, outputs, pulls, others, clock, ag, reqs>>

MediaStep(m) ==
  \/ CtxTasks(m)
  \/ CtxPrs(m)
  \/ CtxHealing(m)
  \/ Generate(m)
  \/ PubRepoInfo(m)
  \/ PubPut(m)
  \/ PubIssue(m)

\* the wall clock advances
Tick ==
  /\ clock < MaxClock
  /\ clock' = clock + 1
  /\ UNCHANGED <<branches, outputs, pulls, issues, others, ag, reqs, md>>

(***************************************************************************)
(* Checklist documents.                                                    *)
(***************************************************************************)
LineA == CheckedMarker \o <<" ", "a">>

LineB == UncheckedMarker \o <<" ", "b">>

LineFix == CheckedMarker \o <<" ", "f", "i", "x">>

LineBare == CheckedMarker \o <<" ">>

LineNote == <<"n">>

Lines == {LineA, LineB, LineFix, LineBare, LineNote, <<>>}

Docs == {Join(ls) : ls \in UNION {[1..n -> Lines] : n \in 0..MaxLines}}

SmallDocs == {Join(<<LineB, LineB>>), Join(<<LineA, LineB>>), NoFile}

ClosedPull ==
  [head |-> <<FixPrefix, 999>>, base |-> DefaultBranch, state |-> "closed",
   title |-> HealTitle]

InitPlatform(docs, arts, closed) ==
  /\ \E art \in arts, t \in docs :
       branches = [b \in BranchNames |->
                     IF b = DefaultBranch
                     THEN [exists |-> TRUE, artifact |-> art, tasks |-> t]
                     ELSE [exists |-> FALSE, artifact |-> FALSE,
                           tasks |-> NoFile]]
  /\ outputs = [s \in Minutes |-> NoOutput]
  /\ pulls \in closed
  /\ issues = <<>>
  /\ others = 0
  /\ clock = 0
  /\ reqs = [p \in Agents |-> <<>>]

(***************************************************************************)
(* Spec: concurrent Repair Agent invocations and other writers.            *)
(***************************************************************************)
Init ==
  /\ InitPlatform(SmallDocs, BOOLEAN, {{}})
  /\ ag = [p \in Agents |-> AgentStart]
  /\ md = [m \in Medias |-> MediaIdle]

Next ==
  \/ \E p \in Agents : AgentStep(p)
  \/ OtherWrite

Spec == Init /\ [][Next]_vars

(***************************************************************************)
(* SpecMedia: concurrent Media Agent invocations under a running clock.    *)
(***************************************************************************)
InitMedia ==
  /\ InitPlatform({Join(<<LineA, LineB>>)}, {FALSE}, {{}})
  /\ ag = [p \in Agents |-> AgentIdle]
  /\ md = [m \in Medias |-> MediaStart]

NextMedia ==
  \/ \E m \in Medias : MediaStep(m)
  \/ Tick

SpecMedia == InitMedia /\ [][NextMedia]_vars

(***************************************************************************)
(* SpecText: one invocation of either agent on an arbitrary checklist.     *)
(***************************************************************************)
InitText ==
  /\ InitPlatform(Docs \cup {NoFile}, BOOLEAN, {{}, {ClosedPull}})
  /\ \E who \in {"a1", "m1"} :
       /\ ag = [p \in Agents |-> IF p = who THEN AgentStart ELSE AgentIdle]
       /\ md = [m \in Medias |-> IF m = who THEN MediaStart ELSE MediaIdle]

NextText ==
  \/ \E p \in Agents : AgentStep(p)
  \/ \E m \in Medias : MediaStep(m)

SpecText == InitText /\ [][NextText]_vars

(***************************************************************************)
(* Properties.                                                             *)
(***************************************************************************)
Last(q) == q[Len(q)]

Ops(p) == [i \in 1..Len(reqs[p]) |-> reqs[p][i].op]

Count(p, op) == Cardinality({i \in 1..Len(reqs[p]) : reqs[p][i].op = op})

IsPut(q) == q.op = "put_tasks"

Finished(p) == ag[p].pc \in {"done", "crashed"}

MarkerPrefix == CheckedMarker \o <<" ">>

RemovePrefix(line) ==
  IF StartsAt(line, MarkerPrefix, 1)
  THEN Slice(line, Len(MarkerPrefix) + 1, Len(line))
  ELSE line

\* c is d with its first unchecked marker, and nothing else, turned checked
FirstFlipped(d, c) ==
  /\ Len(c) = Len(d)
  /\ \E i \in 1..Len(d) :
       /\ StartsAt(d, UncheckedMarker, i)
       /\ \A j \in 1..(i - 1) : ~StartsAt(d, UncheckedMarker, j)
       /\ c[i + 3] = "x"
       /\ \A k \in 1..Len(d) : k # i + 3 => c[k] = d[k]

\* every character is kept, or is the blank of a marker that became an x
Monotone(d, c) ==
  /\ Len(c) = Len(d)
  /\ \A k \in 1..Len(d) :
       \/ c[k] = d[k]
       \/ /\ d[k] = " "
          /\ c[k] = "x"
          /\ StartsAt(d, UncheckedMarker, k - 3)

\* C1 (as claimed): when get_context retrieves the checklist, the task is the
\* last line containing "- [x]" with the marker prefix removed and nothing
\* else removed, or "System Optimization" when no line contains the marker.
C1_TaskIsLastCheckedLine ==
  \A m \in Medias :
    (md[m].pc \notin {"idle", "start"} /\ md[m].got) =>
      LET ch == SelectSeq(Split(branches[DefaultBranch].tasks), HasChecked)
      IN  md[m].task = IF ch # <<>> THEN RemovePrefix(Last(ch))
                       ELSE DefaultTask

\* C2: after update_tasks_md read the checklist with success and found an
\* unchecked marker, the one PUT it issued carries the document with exactly
\* the first unchecked marker flipped; otherwise it issued no PUT and the
\* checklist of every branch is the one of the default branch.
C2_FirstMarkerFlipped ==
  \A p \in Agents :
    ag[p].pc \in {"pr", "done"} =>
      LET d == branches[DefaultBranch].tasks
          puts == SelectSeq(reqs[p], IsPut)
      IN  IF ag[p].t_status = 200 /\ Contains(UncheckedMarker, d)
          THEN /\ Len(puts) = 1
               /\ FirstFlipped(d, puts[1].content)
               /\ puts[1].accepted =>
                    branches[puts[1].branch].tasks = puts[1].content
               /\ ~puts[1].accepted =>
                    \A b \in BranchNames : branches[b].tasks \in {d, NoFile}
          ELSE /\ puts = <<>>
               /\ \A b \in BranchNames : branches[b].tasks \in {d, NoFile}

C2_Witness ==
  \E p \in Agents :
    /\ ag[p].pc = "done"
    /\ \E i \in 1..Len(reqs[p]) : IsPut(reqs[p][i]) /\ reqs[p][i].accepted
    /\ LET d == branches[DefaultBranch].tasks
       IN  \E i, j \in 1..Len(d) :
             /\ i < j
             /\ StartsAt(d, UncheckedMarker, i)
             /\ StartsAt(d, UncheckedMarker, j)

\* C3 (as claimed): a run of autonomous_heal whose artifact read succeeded
\* ends having issued exactly one create-branch, exactly one delete, at most
\* one checklist update and exactly one pull request, all naming its branch.
C3_OneBranchOneDeleteOnePull ==
  \A p \in Agents :
    (Finished(p) /\ ag[p].status = 200) =>
      /\ Count(p, "create_branch") = 1
      /\ Count(p, "delete") = 1
      /\ Count(p, "put_tasks") <= 1
      /\ Count(p, "create_pr") = 1
      /\ \A i \in 1..Len(reqs[p]) : reqs[p][i].branch = ag[p].branch_name

\* C4: a run whose artifact read returned a status other than 200 (0
\* included) has issued no write request, has printed that there is nothing
\* to repair, and has stopped.
C4_NoWritesWhenAbsent ==
  \A p \in Agents :
    (ag[p].pc \notin {"idle", "start"} /\ ag[p].status # 200) =>
      /\ reqs[p] = <<>>
      /\ ag[p].pc = "done"
      /\ ag[p].out = <<"initiated", "no_chaos">>

C4_Witness ==
  \E p \in Agents :
    /\ ag[p].pc = "done"
    /\ ag[p].status = 0
    /\ branches[DefaultBranch].artifact
    /\ \E q \in Agents : q # p /\ reqs[q] # <<>>

\* C5 (as claimed): whatever API calls fail, no run of autonomous_heal or of
\* the media pipeline ends in an uncaught exception.
C5_NoFatalError ==
  /\ \A p \in Agents : ag[p].pc # "crashed"
  /\ \A m \in Medias : md[m].pc # "crashed"

\* C6 (as claimed): the task description returned by get_context is never
\* the empty string.
C6_TaskNeverEmpty ==
  \A m \in Medias :
    md[m].pc \notin {"idle", "start"} => md[m].task # <<>>

\* C7: a checklist PUT of update_tasks_md is accepted only when the document
\* on its target branch is still the one it read, and then it turns exactly
\* the first unchecked marker of that document; a rejected PUT changes
\* nothing; no step of an agent removes a branch, shortens a checklist or
\* changes a character other than the blank of an unchecked marker.
C7_NoLostUpdate ==
  [][ /\ \A p \in Agents :
           (Len(reqs'[p]) > Len(reqs[p]) /\ IsPut(Last(reqs'[p]))) =>
             LET q == Last(reqs'[p])
                 old == branches[q.branch].tasks
             IN  /\ q.accepted =>
                      /\ old = ag[p].t_content
                      /\ FirstFlipped(old, branches'[q.branch].tasks)
                 /\ ~q.accepted => branches' = branches
                 /\ \A b \in BranchNames \ {q.branch} :
                      branches'[b] = branches[b]
      /\ others' = others =>
           \A b \in BranchNames :
             (branches[b].exists /\ branches[b].tasks # NoFile) =>
               /\ branches'[b].exists
               /\ branches'[b].tasks # NoFile
               /\ Monotone(branches[b].tasks, branches'[b].tasks)
    ]_vars

C7_Witness ==
  \E p \in Agents :
    /\ ag[p].pc = "pr"
    /\ IsPut(Last(reqs[p]))
    /\ Last(reqs[p]).conflict
    /\ others = 0
    /\ LET b == Last(reqs[p]).branch
       IN  /\ branches[b].exists
           /\ branches[b].tasks # NoFile
           /\ branches[b].tasks # ag[p].t_content
           /\ Contains(CheckedMarker, branches[b].tasks)

\* C8: a document stored at a path of the output directory is never replaced
\* or removed by a later step.
C8_PublishedAppendOnly ==
  [][ \A s \in Minutes :
        outputs[s] # NoOutput => outputs'[s] = outputs[s] ]_vars

C8_Witness ==
  \E m, n \in Medias :
    /\ m # n
    /\ md[m].put = "stored"
    /\ md[n].put = "rejected"
    /\ md[m].path = md[n].path
    /\ md[m].content # md[n].content
    /\ outputs[md[m].path] = md[m].content

\* C9: the write requests of a run are issued in the order create-branch,
\* delete, checklist PUT (exactly when the read succeeded and found an
\* unchecked marker), pull request, whatever the outcome of the earlier
\* ones; nothing else is issued, and a branch that was created exists.
C9_FixedOrderNoRollback ==
  \A p \in Agents :
    LET a == ag[p]
        full == <<"create_branch", "delete">>
                  \o (IF a.t_status = 200
                         /\ Contains(UncheckedMarker, a.t_content)
                      THEN <<"put_tasks">> ELSE <<>>)
                  \o <<"create_pr">>
    IN  /\ (a.pc = "done" /\ a.status = 200) => Ops(p) = full
        /\ \E k \in 0..4 :
             \/ Ops(p) = SubSeq(<<"create_branch", "delete", "put_tasks",
                                  "create_pr">>, 1, k)
             \/ Ops(p) = SubSeq(<<"create_branch", "delete", "create_pr">>,
                                1, k)
        /\ \A i \in 1..Len(reqs[p]) :
             (reqs[p][i].op = "create_branch" /\ reqs[p][i].accepted) =>
               branches[reqs[p][i].branch].exists

C9_Witness ==
  \E p \in Agents :
    /\ ag[p].pc = "done"
    /\ Len(reqs[p]) = 4
    /\ reqs[p][1].accepted
    /\ ~reqs[p][2].accepted
    /\ ~reqs[p][3].accepted
    /\ ~reqs[p][4].accepted
    /\ branches[ag[p].branch_name].exists
    /\ \A q \in pulls : q.head # ag[p].branch_name

\* C10: the DELETE and the checklist PUT of a run name the fix branch of that
\* run; the checklist read returns the content and blob id of the default
\* branch; no step of an agent changes a file of the default branch.
C10_DefaultBranchUntouched ==
  [][ /\ \A p \in Agents :
           /\ \A i \in 1..Len(reqs'[p]) :
                reqs'[p][i].op \in {"delete", "put_tasks"} =>
                  /\ reqs'[p][i].branch = ag'[p].branch_name
                  /\ reqs'[p][i].branch \in FixBranches
           /\ (ag[p].pc = "tasks_get" /\ ag'[p].pc # "tasks_get"
                 /\ ag'[p].t_status = 200) =>
                /\ ag'[p].t_content = branches[DefaultBranch].tasks
                /\ ag'[p].t_sha = BlobSha(branches[DefaultBranch].tasks)
      /\ others' = others => branches'[DefaultBranch] = branches[DefaultBranch]
    ]_vars

C10_Witness ==
  \E p \in Agents :
    /\ ag[p].pc = "done"
    /\ others = 0
    /\ \E i \in 1..Len(reqs[p]) : IsPut(reqs[p][i]) /\ reqs[p][i].accepted
    /\ branches[DefaultBranch].artifact
    /\ ~branches[ag[p].branch_name].artifact
    /\ FirstFlipped(branches[DefaultBranch].tasks,
                    branches[ag[p].branch_name].tasks)

====
